---- MODULE Spec2Model ----
(***************************************************************************)
(* A model of the table helpers of fra_amtrak:                             *)
(*   amtk_network.filter_stations   (row filtering and argument checks)    *)
(*   amtk_frame.aggregate_data      (box-plot aggregation)                 *)
(*   amtk_frame.describe_numeric_column  (descriptive statistics)          *)
(*   amtk_network.create_route      (ordering the stations of a train)     *)
(* Each function is an operator, computed the way the code computes it,    *)
(* and a specification draws the arguments from bounded sets and applies   *)
(* the operator.  What a call leaves behind for its caller (the returned   *)
(* value, the warnings, the caller's own table) is the state.              *)
(***************************************************************************)
EXTENDS Integers, Sequences, FiniteSets, TLC

VARIABLES stations, call, result, frame, k, agg, seriesArg, described, train, route

vars == <<stations, call, result, frame, k, agg, seriesArg, described, train, route>>

(***************************************************************************)
(* Bounds of the model.                                                    *)
(***************************************************************************)
MaxRows == 2
MaxQuarters == 5
MaxFrameRows == 4
MaxSeriesLen == 3
MaxTrainRows == 3

(***************************************************************************)
(* Python values.  A value carries its type; numbers carry their numeric   *)
(* value in n (floats of the model are integral: 0.0, 1.0, 2024.0), and    *)
(* strings their text in s.                                                *)
(***************************************************************************)
None == [t |-> "None", n |-> 0, s |-> ""]
PyInt(i) == [t |-> "int", n |-> i, s |-> ""]
PyFloat(i) == [t |-> "float", n |-> i, s |-> ""]
PyBool(b) == [t |-> "bool", n |-> IF b THEN 1 ELSE 0, s |-> ""]
PyStr(x) == [t |-> "str", n |-> 0, s |-> x]

IsNumber(v) == v.t \in {"int", "float", "bool"}

\* Python truth value test: `if column:`, `if year:`, `if quarters:`
Truthy(v) ==
    CASE v.t = "None" -> FALSE
      [] v.t = "str" -> v.s # ""
      [] OTHER -> v.n # 0

\* isinstance(v, int): bool is a subclass of int
IsInstanceInt(v) == v.t \in {"int", "bool"}

\* v is None
IsNone(v) == v.t = "None"

\* Python ==: numbers compare by value across int, float and bool
PyEq(a, b) ==
    CASE IsNumber(a) /\ IsNumber(b) -> a.n = b.n
      [] a.t = "str" /\ b.t = "str" -> a.s = b.s
      [] a.t = "None" /\ b.t = "None" -> TRUE
      [] OTHER -> FALSE

(***************************************************************************)
(* The stations table: a sequence of rows and the row labels (the index).  *)
(***************************************************************************)
Columns == {"Train Number", "Fiscal Year", "Fiscal Quarter"}

Range(n) == [i \in 1..n |-> i - 1]

\* the positions i of keep with keep[i], ascending
SelectIdx(keep) ==
    LET F[i \in 0..Len(keep)] ==
            IF i = 0 THEN <<>>
            ELSE IF keep[i] THEN Append(F[i - 1], i) ELSE F[i - 1]
    IN  F[Len(keep)]

\* the position of the row labelled l, 0 when no row carries the label
Locate(index, l) ==
    IF \E j \in 1..Len(index) : index[j] = l
    THEN CHOOSE j \in 1..Len(index) : index[j] = l
    ELSE 0

(***************************************************************************)
(* filter_stations(stations, column=None, value=None, year=None, *quarters)*)
(***************************************************************************)
Raise(kind, msg) ==
    [kind |-> kind, msg |-> msg, index |-> <<>>, rows |-> <<>>, same |-> FALSE]

\* return stations: the caller gets the table object it passed in
ReturnStations_reset(st) ==
    [kind |-> "ok", msg |-> "", index |-> Range(Len(st.rows)), rows |-> st.rows,
     same |-> FALSE]

ReturnStations(st) ==
    [kind |-> "ok", msg |-> "", index |-> st.index, rows |-> st.rows, same |-> TRUE]

\* return stations[mask].reset_index(drop=True)
\* mask is labelled 0..n-1; the boolean indexer is aligned with the table by
\* label, and it cannot be aligned when a row label of the table is not a
\* label of the mask
ReturnMasked(st, mask) ==
    LET n == Len(st.rows)
        kept == SelectIdx([j \in 1..n |-> mask[st.index[j] + 1]])
    IN  IF \E j \in 1..n : st.index[j] \notin 0..(n - 1)
        THEN Raise("IndexingError", "Unalignable boolean Series provided as indexer")
        ELSE [kind |-> "ok", msg |-> "",
              index |-> Range(Len(kept)),
              rows |-> [i \in 1..Len(kept) |-> st.rows[kept[i]]],
              same |-> FALSE]

\* mask &= cond, where cond is a boolean Series over the rows of stations
\* (cond[j] belongs to the row at position j and carries its label): both
\* sides are aligned by label and the result keeps the labels of the mask,
\* 0..n-1; a label with no row in the table becomes False
MaskAnd_overwrite(st, mask, cond) ==
    [i \in 1..Len(mask) |->
        LET j == Locate(st.index, i - 1)
        IN  j # 0 /\ cond[j]]

MaskAnd(st, mask, cond) ==
    [i \in 1..Len(mask) |->
        LET j == Locate(st.index, i - 1)
        IN  mask[i] /\ j # 0 /\ cond[j]]

\* all(isinstance(num, int) and num in (1, 2, 3, 4) for num in quarters)
QuartersValid_up_to_5(quarters) ==
    \A i \in 1..Len(quarters) :
        IsInstanceInt(quarters[i]) /\ \E q \in {1, 2, 3, 4, 5} : PyEq(quarters[i], PyInt(q))

QuartersValid(quarters) ==
    \A i \in 1..Len(quarters) :
        IsInstanceInt(quarters[i]) /\ \E q \in {1, 2, 3, 4} : PyEq(quarters[i], PyInt(q))

\* stations["Fiscal Quarter"].isin(quarters)
IsIn(v, quarters) == \E i \in 1..Len(quarters) : PyEq(v, quarters[i])

\* column in stations.columns
ColumnCheck_skipped(st, column) == TRUE

ColumnCheck(st, column) == column.t = "str" /\ column.s \in Columns

\* value is None
ValueMissing_truth_test(value) == ~Truthy(value)

ValueMissing(value) == IsNone(value)

\* isinstance(year, int)
YearCheck_any_number(year) == IsNumber(year)

YearCheck(year) == IsInstanceInt(year)

\* if column:
ColumnGiven(column) == Truthy(column)

\* if year:
YearGiven(year) == Truthy(year)

\* if quarters: nested in the body of `if year:`
QuartersGiven_without_year(year, quarters) == quarters # <<>>

QuartersGiven(year, quarters) == YearGiven(year) /\ quarters # <<>>

filter_stations(st, column, value, year, quarters) ==
    LET n == Len(st.rows)
        mask0 == [i \in 1..n |-> TRUE]
        mask1 == IF ColumnGiven(column)
                 THEN MaskAnd(st, mask0, [j \in 1..n |-> PyEq(st.rows[j][column.s], value)])
                 ELSE mask0
        mask2 == IF YearGiven(year)
                 THEN MaskAnd(st, mask1, [j \in 1..n |-> PyEq(st.rows[j]["Fiscal Year"], year)])
                 ELSE mask1
        mask3 == IF QuartersGiven(year, quarters)
                 THEN MaskAnd(st, mask2,
                              [j \in 1..n |-> IsIn(st.rows[j]["Fiscal Quarter"], quarters)])
                 ELSE mask2
    IN  IF ColumnGiven(column) /\ ~ColumnCheck(st, column)
        THEN Raise("ValueError", "Invalid < column > name.")
        ELSE IF ColumnGiven(column) /\ ValueMissing(value)
        THEN Raise("ValueError", "Invalid or missing < value >.")
        ELSE IF ColumnGiven(column) /\ ~(column.t = "str" /\ column.s \in Columns)
        THEN Raise("KeyError", column.s)
        ELSE IF YearGiven(year) /\ ~YearCheck(year)
        THEN Raise("TypeError", "Invalid < year > type.")
        ELSE IF QuartersGiven(year, quarters) /\ ~QuartersValid(quarters)
        THEN Raise("ValueError", "Only 1-4 quarters can be specified.")
        ELSE IF \A i \in 1..n : mask3[i]
        THEN ReturnStations(st)
        ELSE ReturnMasked(st, mask3)

(***************************************************************************)
(* Inputs of filter_stations.                                              *)
(***************************************************************************)
SeqsUpTo(S, n) == UNION {[1..m -> S] : m \in 0..n}

\* the fiscal periods of the rows: <<Fiscal Year, Fiscal Quarter>>
Periods == {<<2023, 1>>, <<2024, 1>>, <<2024, 2>>}

StationRows ==
    {[c \in Columns |->
        CASE c = "Train Number" -> PyInt(tn)
          [] c = "Fiscal Year" -> PyInt(p[1])
          [] c = "Fiscal Quarter" -> PyInt(p[2])] :
        tn \in {0, 1}, p \in Periods}

\* row labels: the default RangeIndex 0..n-1, or labels that start at 1
Indexes(n) == {Range(n), [i \in 1..n |-> i]}

Tables ==
    UNION {{[index |-> ix, rows |-> rs] : ix \in Indexes(Len(rs))} :
             rs \in SeqsUpTo(StationRows, MaxRows)}

ColumnArgs == {None, PyStr("Train Number"), PyStr("Bogus")}
ValueArgs == {None, PyInt(0), PyFloat(0), PyBool(FALSE)}
YearArgs == {None, PyInt(0), PyInt(2024), PyFloat(0), PyFloat(2024), PyStr("2024")}

\* *quarters: up to MaxQuarters arguments, listed in the order of QuarterVals
QuarterVals == <<PyInt(1), PyInt(2), PyInt(5), PyFloat(1)>>
QuarterArgs ==
    {[i \in 1..Len(ix) |-> QuarterVals[ix[i]]] :
        ix \in {x \in SeqsUpTo(1..Len(QuarterVals), MaxQuarters) :
                  \A i \in 1..(Len(x) - 1) : x[i] <= x[i + 1]}}

NoCall ==
    [fn |-> "none", column |-> None, value |-> None, year |-> None, quarters |-> <<>>]
NoResult ==
    [kind |-> "none", msg |-> "", index |-> <<>>, rows |-> <<>>, same |-> FALSE]

(***************************************************************************)
(* aggregate_data(frame, columns, k=1.5), with columns = [cat, val].       *)
(* A frame row is [cat, val, Color].  A number that may be missing is <<>> *)
(* when it is NaN and <<x>> otherwise.  The values of the frame are        *)
(* integers; a quantile is held as four times its value and a whisker      *)
(* boundary as 4 * k[2] times its value, where k is the fraction           *)
(* k[1] / k[2], so that all the arithmetic is exact.                       *)
(***************************************************************************)
NaN == <<>>

Sorted(xs) == SortSeq(xs, LAMBDA a, b : a < b)

\* the elements of a set of integers, ascending: the order of the group keys
Ascending(S) ==
    [i \in 1..Cardinality(S) |-> CHOOSE x \in S : Cardinality({y \in S : y < x}) = i - 1]

FlattenSeq(ss) ==
    LET F[i \in 0..Len(ss)] == IF i = 0 THEN <<>> ELSE F[i - 1] \o ss[i]
    IN  F[Len(ss)]

\* the group keys of rows.groupby(cat)
GroupKeys(rows) == Ascending({rows[j].cat : j \in 1..Len(rows)})

\* the non-null values of the group c, in row order
GroupValues(rows, c) ==
    LET sel == SelectSeq(rows, LAMBDA r : r.cat = c /\ r.val # NaN)
    IN  [j \in 1..Len(sel) |-> sel[j].val[1]]

\* four times the quantile p/4 of the sorted values xs, by linear
\* interpolation between the two nearest ranks
Quantile4(xs, p) ==
    LET h == (Len(xs) - 1) * p
        i == h \div 4
        f == h % 4
    IN  IF f = 0 THEN 4 * xs[i + 1]
        ELSE 4 * xs[i + 1] + f * (xs[i + 2] - xs[i + 1])

\* frame.groupby(cat)[[val]].describe().reset_index(): one row per group key,
\* with NaN statistics for a group that has no value
Describe(rows) ==
    LET keys == GroupKeys(rows)
    IN  [i \in 1..Len(keys) |->
            LET xs == Sorted(GroupValues(rows, keys[i]))
            IN  [cat |-> keys[i],
                 count |-> Len(xs),
                 min |-> IF xs = <<>> THEN NaN ELSE <<xs[1]>>,
                 q25 |-> IF xs = <<>> THEN NaN ELSE <<Quantile4(xs, 1)>>,
                 q50 |-> IF xs = <<>> THEN NaN ELSE <<Quantile4(xs, 2)>>,
                 q75 |-> IF xs = <<>> THEN NaN ELSE <<Quantile4(xs, 3)>>,
                 max |-> IF xs = <<>> THEN NaN ELSE <<xs[Len(xs)]>>]]

\* iqr = 75% - 25%, four times its value
Iqr(a) == IF a.q25 = NaN THEN NaN ELSE <<a.q75[1] - a.q25[1]>>

\* min_ = 25% - k * iqr, 4 * k[2] times its value
LowerFence(a, kk) ==
    IF a.q25 = NaN THEN NaN ELSE <<kk[2] * a.q25[1] - kk[1] * Iqr(a)[1]>>

\* max_ = 75% + k * iqr, 4 * k[2] times its value
UpperFence(a, kk) ==
    IF a.q75 = NaN THEN NaN ELSE <<kk[2] * a.q75[1] + kk[1] * Iqr(a)[1]>>

\* a value on the scale of the fences
Scaled(v, kk) == 4 * kk[2] * v

\* frame.merge(agg_stats[[cat, "min_", "max_"]], on=cat, how="left")
DataPoints(rows, stats, kk) ==
    [j \in 1..Len(rows) |->
        LET a == stats[CHOOSE i \in 1..Len(stats) : stats[i].cat = rows[j].cat]
        IN  [cat |-> rows[j].cat, val |-> rows[j].val,
             min_ |-> LowerFence(a, kk), max_ |-> UpperFence(a, kk)]]

\* data_points[val] >= data_points["min_"]: False when either side is NaN
MaskLower(pt, kk) ==
    pt.val # NaN /\ pt.min_ # NaN /\ Scaled(pt.val[1], kk) >= pt.min_[1]

\* data_points[val] <= data_points["max_"]
MaskUpper(pt, kk) ==
    pt.val # NaN /\ pt.max_ # NaN /\ Scaled(pt.val[1], kk) <= pt.max_[1]

\* (data_points[val] < data_points["min_"]) | (data_points[val] > data_points["max_"])
IsOutlier_inclusive(pt, kk) ==
    /\ pt.val # NaN
    /\ pt.min_ # NaN
    /\ \/ Scaled(pt.val[1], kk) <= pt.min_[1]
       \/ Scaled(pt.val[1], kk) >= pt.max_[1]

IsOutlier(pt, kk) ==
    /\ pt.val # NaN
    /\ pt.min_ # NaN
    /\ \/ Scaled(pt.val[1], kk) < pt.min_[1]
       \/ Scaled(pt.val[1], kk) > pt.max_[1]

SeqMin(xs) == CHOOSE x \in {xs[i] : i \in 1..Len(xs)} : \A i \in 1..Len(xs) : x <= xs[i]

SeqMax(xs) == CHOOSE x \in {xs[i] : i \in 1..Len(xs)} : \A i \in 1..Len(xs) : x >= xs[i]

\* points.groupby(cat)[val].min().reset_index(drop=True): one entry per group
\* key that occurs in points, labelled 0, 1, ... in key order
GroupMin(points) ==
    LET keys == GroupKeys(points)
    IN  [i \in 1..Len(keys) |-> <<SeqMin(GroupValues(points, keys[i]))>>]

\* points.groupby(cat)[val].max().reset_index(drop=True)
GroupMax(points) ==
    LET keys == GroupKeys(points)
    IN  [i \in 1..Len(keys) |-> <<SeqMax(GroupValues(points, keys[i]))>>]

\* agg_stats[name] = series: the series is aligned with the rows of agg_stats
\* by label, and a row whose label the series lacks gets NaN
AssignColumn(n, series) ==
    [i \in 1..n |-> IF i <= Len(series) THEN series[i] ELSE NaN]

\* outliers.groupby(cat)[val].apply(list).reset_index(name="outliers")
OutlierLists(points, kk) ==
    LET out == SelectSeq(points, LAMBDA pt : IsOutlier(pt, kk))
        keys == GroupKeys(out)
    IN  [i \in 1..Len(keys) |-> [cat |-> keys[i], outliers |-> GroupValues(out, keys[i])]]

\* frame[[cat, "Color"]].drop_duplicates(): the first occurrence of each pair
CategoryColors(rows) ==
    LET first == SelectIdx([j \in 1..Len(rows) |->
                    \A h \in 1..(j - 1) :
                        <<rows[h].cat, rows[h].Color>> # <<rows[j].cat, rows[j].Color>>])
    IN  [i \in 1..Len(first) |->
            [cat |-> rows[first[i]].cat, Color |-> rows[first[i]].Color]]

\* row["outliers"] + (row["outliers_new"] if isinstance(row["outliers_new"], list) else [])
\* a list that may be missing is [isna, items]
CombineOutliers(old, new) ==
    [isna |-> FALSE, items |-> old.items \o (IF new.isna THEN <<>> ELSE new.items)]

\* the left merge with the outlier lists on cat: NaN for a category without one
OutliersNew(lists, c) ==
    IF \E i \in 1..Len(lists) : lists[i].cat = c
    THEN [isna |-> FALSE,
          items |-> lists[CHOOSE i \in 1..Len(lists) : lists[i].cat = c].outliers]
    ELSE [isna |-> TRUE, items |-> <<>>]

\* agg_stats with the columns iqr, min_, max_, lower, upper and outliers = []
WithWhiskers(stats, points, kk) ==
    LET n == Len(stats)
        lower == AssignColumn(n, GroupMin(SelectSeq(points, LAMBDA pt : MaskLower(pt, kk))))
        upper == AssignColumn(n, GroupMax(SelectSeq(points, LAMBDA pt : MaskUpper(pt, kk))))
    IN  [i \in 1..n |->
            [cat |-> stats[i].cat, count |-> stats[i].count,
             min |-> stats[i].min, q25 |-> stats[i].q25, q50 |-> stats[i].q50,
             q75 |-> stats[i].q75, max |-> stats[i].max,
             iqr |-> Iqr(stats[i]),
             min_ |-> LowerFence(stats[i], kk), max_ |-> UpperFence(stats[i], kk),
             lower |-> lower[i], upper |-> upper[i],
             outliers |-> [isna |-> FALSE, items |-> <<>>]]]

\* agg_stats.merge(frame[[cat, "Color"]].drop_duplicates(), on=cat, how="left"),
\* then the merge with the outlier lists and the combination of the two lists
WithColorAndOutliers(full, colors, lists) ==
    FlattenSeq([i \in 1..Len(full) |->
        LET a == full[i]
            cs == SelectSeq(colors, LAMBDA c : c.cat = a.cat)
            out == CombineOutliers(a.outliers, OutliersNew(lists, a.cat))
        IN  [h \in 1..Len(cs) |->
                [cat |-> a.cat, count |-> a.count, min |-> a.min, q25 |-> a.q25,
                 q50 |-> a.q50, q75 |-> a.q75, max |-> a.max, iqr |-> a.iqr,
                 min_ |-> a.min_, max_ |-> a.max_, lower |-> a.lower, upper |-> a.upper,
                 outliers |-> out, Color |-> cs[h].Color]]])

\* the one element of a singleton set; aggregate_data uses it to name each
\* intermediate table once, as the code's local variables do
Only(S) == CHOOSE x \in S : TRUE

aggregate_data(rows, kk) ==
    Only({WithColorAndOutliers(full, CategoryColors(rows), lists) :
            <<full, lists>> \in
                {<<WithWhiskers(stats, points, kk), OutlierLists(points, kk)>> :
                    <<stats, points>> \in
                        {<<st, DataPoints(rows, st, kk)>> : st \in {Describe(rows)}}}})

NoAgg == [done |-> FALSE, rows |-> <<>>]

(***************************************************************************)
(* Inputs of aggregate_data.                                               *)
(***************************************************************************)
FrameRows ==
    {[cat |-> c, val |-> v, Color |-> col] :
        c \in {1, 2}, v \in {NaN, <<0>>, <<4>>}, col \in {"red", "blue"}}

Frames == SeqsUpTo(FrameRows, MaxFrameRows)

\* k: 0, and the default 1.5
KArgs == {<<0, 1>>, <<3, 2>>}

(***************************************************************************)
(* describe_numeric_column(column).  The argument is any Python object:    *)
(* obj is its class, dtype its dtype when it has one and vals its values,  *)
(* each <<>> (NaN) or <<x>>.  The statistics kept are the ones that are    *)
(* rational: counts, mean (as <<sum, count>>), mode, the quantiles (four   *)
(* times their value), range and iqr (four times its value).               *)
(***************************************************************************)
\* column.dtype: only a Series or an ndarray has one
HasDtype(col) == col.obj \in {"Series", "ndarray"}

\* np.issubdtype(dtype, np.number) cannot interpret a pandas extension dtype
IsNumpyDtype(dtype) == dtype \in {"int64", "float64", "object", "bool"}

\* np.issubdtype(column.dtype, np.number)
IsNumericDtype(dtype) == dtype \in {"int64", "float64"}

\* the non-null values, in order
NonNull(vals) ==
    LET sel == SelectSeq(vals, LAMBDA v : v # NaN)
    IN  [j \in 1..Len(sel) |-> sel[j][1]]

SeqSum(xs) ==
    LET F[i \in 0..Len(xs)] == IF i = 0 THEN 0 ELSE F[i - 1] + xs[i]
    IN  F[Len(xs)]

\* column.quantile(p / 4), skipping the missing values
PandasQuantile4(vals, p) ==
    LET xs == Sorted(NonNull(vals))
    IN  IF xs = <<>> THEN NaN ELSE <<Quantile4(xs, p)>>

\* column.mode()[0] if not column.mode().empty else None: the most frequent
\* non-null value, the smallest one of them; None is <<>>
Mode(vals) ==
    LET xs == NonNull(vals)
        S == {xs[i] : i \in 1..Len(xs)}
        Freq(x) == Cardinality({i \in 1..Len(xs) : xs[i] = x})
    IN  IF xs = <<>> THEN <<>>
        ELSE <<CHOOSE x \in S : \A y \in S : Freq(y) < Freq(x) \/ (Freq(y) = Freq(x) /\ x <= y)>>

\* stats.iqr(column): np.percentile over all the values, nan_policy
\* "propagate": NaN as soon as one value is NaN, and NaN for no value
ScipyIqr_omit_nan(vals) ==
    LET xs == Sorted(NonNull(vals))
    IN  IF xs = <<>> THEN NaN ELSE <<Quantile4(xs, 3) - Quantile4(xs, 1)>>

ScipyIqr(vals) ==
    LET xs == Sorted(NonNull(vals))
    IN  IF xs = <<>> \/ \E i \in 1..Len(vals) : vals[i] = NaN
        THEN NaN
        ELSE <<Quantile4(xs, 3) - Quantile4(xs, 1)>>

MissingMsg == "Column contains missing values. Interquartile range (IQR) will not be computed."
NotNumericMsg == "Provided column is not numeric."

NoStats ==
    [non_null |-> 0, missing |-> 0, mean |-> NaN, median |-> NaN, mode |-> NaN,
     min |-> NaN, q25 |-> NaN, q50 |-> NaN, q75 |-> NaN, max |-> NaN,
     range |-> NaN, iqr |-> NaN]

\* the dictionary of statistics of a numeric Series
Statistics(vals) ==
    LET xs == Sorted(NonNull(vals))
    IN  [non_null |-> Len(xs),
         missing |-> Len(vals) - Len(xs),
         mean |-> IF xs = <<>> THEN NaN ELSE <<SeqSum(xs), Len(xs)>>,
         median |-> PandasQuantile4(vals, 2),
         mode |-> Mode(vals),
         min |-> IF xs = <<>> THEN NaN ELSE <<xs[1]>>,
         q25 |-> PandasQuantile4(vals, 1),
         q50 |-> PandasQuantile4(vals, 2),
         q75 |-> PandasQuantile4(vals, 3),
         max |-> IF xs = <<>> THEN NaN ELSE <<xs[Len(xs)]>>,
         range |-> IF xs = <<>> THEN NaN ELSE <<xs[Len(xs)] - xs[1]>>,
         iqr |-> ScipyIqr(vals)]

\* what a call leaves: the returned value (ret is "dict" or "None"), the
\* warnings it issued, and the exception it raised ("" for none)
Outcome(ret, st, warned, exc) ==
    [done |-> TRUE, ret |-> ret, stats |-> st, warnings |-> warned, raised |-> exc]

\* the body of the try statement
TryBody(col) ==
    IF ~HasDtype(col) THEN Outcome("", NoStats, <<>>, "AttributeError")
    ELSE IF ~IsNumpyDtype(col.dtype) THEN Outcome("", NoStats, <<>>, "TypeError")
    ELSE IF ~IsNumericDtype(col.dtype) THEN Outcome("None", NoStats, <<NotNumericMsg>>, "")
    ELSE IF col.obj # "Series" THEN Outcome("", NoStats, <<>>, "AttributeError")
    ELSE Outcome("dict", Statistics(col.vals),
                 IF \E i \in 1..Len(col.vals) : col.vals[i] = NaN
                 THEN <<MissingMsg>> ELSE <<>>,
                 "")

\* except (AttributeError, TypeError, ValueError) as e
Caught_attribute_error_only(exc) == exc = "AttributeError"

Caught(exc) == exc \in {"AttributeError", "TypeError", "ValueError"}

describe_numeric_column(col) ==
    LET body == TryBody(col)
    IN  IF body.raised # "" /\ Caught(body.raised)
        THEN Outcome("None", NoStats, Append(body.warnings, body.raised), "")
        ELSE body

NoSeries == [obj |-> "None", dtype |-> "", vals |-> <<>>]
NoDescribed ==
    [done |-> FALSE, ret |-> "", stats |-> NoStats, warnings |-> <<>>, raised |-> ""]

(***************************************************************************)
(* Inputs of describe_numeric_column.                                      *)
(***************************************************************************)
SeriesVals == {NaN, <<0>>, <<1>>, <<4>>}

ColumnObjects ==
    {[obj |-> "Series", dtype |-> "float64", vals |-> vs] :
        vs \in SeqsUpTo(SeriesVals, MaxSeriesLen)}
    \cup {[obj |-> "Series", dtype |-> "int64", vals |-> vs] :
        vs \in SeqsUpTo(SeriesVals \ {NaN}, MaxSeriesLen)}
    \cup {[obj |-> "Series", dtype |-> d, vals |-> <<>>] : d \in {"object", "bool", "Int64"}}
    \cup {[obj |-> "ndarray", dtype |-> d, vals |-> <<<<1>>>>] : d \in {"float64", "object"}}
    \cup {[obj |-> o, dtype |-> "", vals |-> <<>>] : o \in {"None", "list", "DataFrame"}}

(***************************************************************************)
(* create_route(train, direction, station_order=None).  train is the       *)
(* caller's table: rows [code, lat, lon] (Arrival Station Code, Latitude,  *)
(* Longitude) with their row labels.  station_order is None or a dict from *)
(* station codes to ranks: [none, map].                                    *)
(***************************************************************************)
\* str.lower() on the direction strings of the model
Lower(d) ==
    CASE d = "NB" -> "nb"
      [] d = "Northbound" -> "northbound"
      [] d = "Southbound" -> "southbound"
      [] d = "EB" -> "eb"
      [] d = "WESTBOUND" -> "westbound"
      [] OTHER -> d

\* if station_order: neither None nor an empty dict
OrderGiven(station_order) == ~station_order.none /\ DOMAIN station_order.map # {}

\* x.map(station_order): the rank of the row's station, NaN for a code that
\* is no key of the dict
RankOf_by_code(row, station_order) == <<IF row.code = "A" THEN 1 ELSE 2>>

RankOf(row, station_order) ==
    IF row.code \in DOMAIN station_order.map
    THEN <<station_order.map[row.code]>>
    ELSE NaN

Perms(n) == {p \in [1..n -> 1..n] : \A i, j \in 1..n : p[i] = p[j] => i = j}

\* the orders sort_values(by="Arrival Station Code", key=...) can leave the
\* rows in: ascending rank, the rows without a rank last in their original
\* order; the sort is not stable, so rows of equal rank come in any order
RankOrders(rows, station_order) ==
    {p \in Perms(Len(rows)) :
        \A i, j \in 1..Len(rows) :
            i < j =>
                LET a == RankOf(rows[p[i]], station_order)
                    b == RankOf(rows[p[j]], station_order)
                IN  CASE a = NaN /\ b = NaN -> p[i] < p[j]
                      [] a = NaN -> FALSE
                      [] b = NaN -> TRUE
                      [] OTHER -> a[1] <= b[1]}

\* the match statement: the sort columns and their ascending flags, or no
\* case for the direction
SortKeys_southbound_ascending(direction) ==
    LET d == Lower(direction)
    IN  CASE d \in {"nb", "northbound"} -> [ok |-> TRUE, by |-> <<"lat", "lon">>, asc |-> <<TRUE, TRUE>>]
          [] d \in {"sb", "southbound"} -> [ok |-> TRUE, by |-> <<"lat", "lon">>, asc |-> <<TRUE, TRUE>>]
          [] d \in {"eb", "eastbound"} -> [ok |-> TRUE, by |-> <<"lon", "lat">>, asc |-> <<TRUE, TRUE>>]
          [] d \in {"wb", "westbound"} -> [ok |-> TRUE, by |-> <<"lon", "lat">>, asc |-> <<FALSE, TRUE>>]
          [] OTHER -> [ok |-> FALSE, by |-> <<"lat", "lon">>, asc |-> <<TRUE, TRUE>>]

SortKeys(direction) ==
    LET d == Lower(direction)
    IN  CASE d \in {"nb", "northbound"} -> [ok |-> TRUE, by |-> <<"lat", "lon">>, asc |-> <<TRUE, TRUE>>]
          [] d \in {"sb", "southbound"} -> [ok |-> TRUE, by |-> <<"lat", "lon">>, asc |-> <<FALSE, TRUE>>]
          [] d \in {"eb", "eastbound"} -> [ok |-> TRUE, by |-> <<"lon", "lat">>, asc |-> <<TRUE, TRUE>>]
          [] d \in {"wb", "westbound"} -> [ok |-> TRUE, by |-> <<"lon", "lat">>, asc |-> <<FALSE, TRUE>>]
          [] OTHER -> [ok |-> FALSE, by |-> <<"lat", "lon">>, asc |-> <<TRUE, TRUE>>]

\* a comes before b in the order of one sort column
Before(a, b, asc) == IF asc THEN a < b ELSE a > b

\* train.sort_values(by=columns, ascending=order): a stable sort on the two
\* columns, so rows equal in both keep their original order
KeyOrder(rows, keys) ==
    CHOOSE p \in Perms(Len(rows)) :
        \A i, j \in 1..Len(rows) :
            i < j =>
                LET a == rows[p[i]]
                    b == rows[p[j]]
                IN  \/ Before(a[keys.by[1]], b[keys.by[1]], keys.asc[1])
                    \/ /\ a[keys.by[1]] = b[keys.by[1]]
                       /\ \/ Before(a[keys.by[2]], b[keys.by[2]], keys.asc[2])
                          \/ a[keys.by[2]] = b[keys.by[2]] /\ p[i] < p[j]

\* the rows and labels of a table taken in the order p
Reordered(tr, p) ==
    [index |-> [i \in 1..Len(p) |-> tr.index[p[i]]],
     rows |-> [i \in 1..Len(p) |-> tr.rows[p[i]]]]

\* frame.reset_index(drop=True)
ResetIndex(tr) == [index |-> Range(Len(tr.rows)), rows |-> tr.rows]

\* what a call leaves: the returned table or the exception, and the
\* caller's train table as it is after the call
Routed(kind, returned, after) ==
    [kind |-> kind, index |-> returned.index, rows |-> returned.rows, train |-> after]

NoTrain == [index |-> <<>>, rows |-> <<>>]

\* the possible outcomes of a call
create_route(tr, direction, station_order) ==
    IF OrderGiven(station_order)
    THEN \* train.sort_values(..., inplace=True); return train.reset_index(drop=True)
         {Routed("ok", ResetIndex(Reordered(tr, p)), Reordered(tr, p)) :
             p \in RankOrders(tr.rows, station_order)}
    ELSE IF ~SortKeys(direction).ok
    THEN {Routed("ValueError", NoTrain, tr)}
    ELSE {Routed("ok", ResetIndex(Reordered(tr, KeyOrder(tr.rows, SortKeys(direction)))), tr)}

NoRoute ==
    [done |-> FALSE, direction |-> "", station_order |-> [none |-> TRUE, map |-> <<>>],
     before |-> NoTrain, kind |-> "", index |-> <<>>, rows |-> <<>>]

(***************************************************************************)
(* Inputs of create_route.                                                 *)
(***************************************************************************)
TrainRows == {[code |-> c, lat |-> la, lon |-> lo] : c \in {"A", "B"}, la \in {0, 1}, lo \in {0, 1}}

\* the table comes out of merges and selections; its labels are not 0..n-1
Trains ==
    {[index |-> [i \in 1..Len(rs) |-> i], rows |-> rs] :
        rs \in SeqsUpTo(TrainRows, MaxTrainRows)}

DirectionArgs ==
    {"NB", "Northbound", "sb", "Southbound", "EB", "eastbound", "wb", "WESTBOUND", "up"}

StationOrderArgs ==
    {[none |-> TRUE, map |-> [c \in {} |-> 0]],
     [none |-> FALSE, map |-> [c \in {} |-> 0]],
     [none |-> FALSE, map |-> [c \in {"A", "B"} |-> IF c = "A" THEN 1 ELSE 2]],
     [none |-> FALSE, map |-> [c \in {"A", "B"} |-> IF c = "A" THEN 2 ELSE 1]],
     [none |-> FALSE, map |-> [c \in {"B"} |-> 1]]}

(***************************************************************************)
(* Specification of filter_stations.                                       *)
(***************************************************************************)
InitFilter ==
    /\ stations \in Tables
    /\ call = NoCall
    /\ result = NoResult
    /\ frame = <<>>
    /\ k = <<3, 2>>
    /\ agg = NoAgg
    /\ seriesArg = NoSeries
    /\ described = NoDescribed
    /\ train = NoTrain
    /\ route = NoRoute

Call_filter_stations ==
    /\ call.fn = "none"
    /\ \E column \in ColumnArgs, value \in ValueArgs, year \in YearArgs,
          quarters \in QuarterArgs :
        /\ call' = [fn |-> "filter_stations", column |-> column, value |-> value,
                    year |-> year, quarters |-> quarters]
        /\ result' = filter_stations(stations, column, value, year, quarters)
    /\ UNCHANGED <<stations, frame, k, agg, seriesArg, described, train, route>>

\* the caller rebinds its table to the returned one, as get_n_busiest_stations does
Rebind_stations ==
    /\ call.fn = "filter_stations"
    /\ result.kind = "ok"
    /\ stations' = [index |-> result.index, rows |-> result.rows]
    /\ call' = NoCall
    /\ result' = NoResult
    /\ UNCHANGED <<frame, k, agg, seriesArg, described, train, route>>

NextFilter == Call_filter_stations \/ Rebind_stations

SpecFilter == InitFilter /\ [][NextFilter]_vars

(***************************************************************************)
(* Specification of aggregate_data.                                        *)
(***************************************************************************)
InitAgg ==
    /\ stations = [index |-> <<>>, rows |-> <<>>]
    /\ call = NoCall
    /\ result = NoResult
    /\ frame \in Frames
    /\ k \in KArgs
    /\ agg = NoAgg
    /\ seriesArg = NoSeries
    /\ described = NoDescribed
    /\ train = NoTrain
    /\ route = NoRoute

Call_aggregate_data ==
    /\ ~agg.done
    /\ agg' = [done |-> TRUE, rows |-> aggregate_data(frame, k)]
    /\ UNCHANGED <<stations, call, result, frame, k, seriesArg, described, train, route>>

NextAgg == Call_aggregate_data

SpecAgg == InitAgg /\ [][NextAgg]_vars

(***************************************************************************)
(* Specification of describe_numeric_column.                               *)
(***************************************************************************)
InitDescribe ==
    /\ stations = [index |-> <<>>, rows |-> <<>>]
    /\ call = NoCall
    /\ result = NoResult
    /\ frame = <<>>
    /\ k = <<3, 2>>
    /\ agg = NoAgg
    /\ seriesArg \in ColumnObjects
    /\ described = NoDescribed
    /\ train = NoTrain
    /\ route = NoRoute

Call_describe_numeric_column ==
    /\ ~described.done
    /\ described' = describe_numeric_column(seriesArg)
    /\ UNCHANGED <<stations, call, result, frame, k, agg, seriesArg, train, route>>

NextDescribe == Call_describe_numeric_column

SpecDescribe == InitDescribe /\ [][NextDescribe]_vars

(***************************************************************************)
(* Specification of create_route.  train is the caller's table; a call     *)
(* records its arguments (before is the table as it was passed) and what   *)
(* came back.                                                              *)
(***************************************************************************)
InitRoute ==
    /\ stations = [index |-> <<>>, rows |-> <<>>]
    /\ call = NoCall
    /\ result = NoResult
    /\ frame = <<>>
    /\ k = <<3, 2>>
    /\ agg = NoAgg
    /\ seriesArg = NoSeries
    /\ described = NoDescribed
    /\ train \in Trains
    /\ route = NoRoute

Call_create_route ==
    /\ ~route.done
    /\ \E direction \in DirectionArgs, station_order \in StationOrderArgs :
        \E out \in create_route(train, direction, station_order) :
            /\ route' = [done |-> TRUE, direction |-> direction,
                         station_order |-> station_order, before |-> train,
                         kind |-> out.kind, index |-> out.index, rows |-> out.rows]
            /\ train' = out.train
    /\ UNCHANGED <<stations, call, result, frame, k, agg, seriesArg, described>>

NextRoute == Call_create_route

SpecRoute == InitRoute /\ [][NextRoute]_vars

(***************************************************************************)
(* Properties of aggregate_data, read in the state the call has returned   *)
(* to: frame and k are the arguments, agg.rows the returned table.         *)
(***************************************************************************)
\* four times the quantile p/4 of the values of category c
CategoryQuantile4(c, p) == Quantile4(Sorted(GroupValues(frame, c)), p)

\* v < Q1 - k * IQR
BelowLowerFence(v, c) ==
    LET q1 == CategoryQuantile4(c, 1)
        q3 == CategoryQuantile4(c, 3)
    IN  4 * k[2] * v < k[2] * q1 - k[1] * (q3 - q1)

\* v > Q3 + k * IQR
AboveUpperFence(v, c) ==
    LET q1 == CategoryQuantile4(c, 1)
        q3 == CategoryQuantile4(c, 3)
    IN  4 * k[2] * v > k[2] * q3 + k[1] * (q3 - q1)

\* C1: every category of the frame has a row in the result, and in every row
\* of a category the 'outliers' list is a list (never missing) that holds, one
\* entry per row and in row order, exactly the non-null values v of the
\* category with v < Q1 - k*IQR or v > Q3 + k*IQR; it is empty when the
\* category has no such row.
C1_OutliersClassified ==
    agg.done =>
        \A c \in {frame[j].cat : j \in 1..Len(frame)} :
            /\ \E i \in 1..Len(agg.rows) : agg.rows[i].cat = c
            /\ \A i \in 1..Len(agg.rows) :
                agg.rows[i].cat = c =>
                    /\ ~agg.rows[i].outliers.isna
                    /\ agg.rows[i].outliers.items =
                         SelectSeq(GroupValues(frame, c),
                                   LAMBDA v : BelowLowerFence(v, c) \/ AboveUpperFence(v, c))

C1_Witness ==
    /\ agg.done
    /\ k = <<3, 2>>
    /\ \E i \in 1..Len(agg.rows) :
        /\ agg.rows[i].count = 4
        /\ agg.rows[i].outliers.items = <<4>>

\* C2: for every category that has a value, 'lower' is the smallest value of
\* the category's own rows that is >= Q1 - k*IQR and 'upper' the largest that
\* is <= Q3 + k*IQR, whichever other categories the frame holds.
C2_Whiskers ==
    agg.done =>
        \A i \in 1..Len(agg.rows) :
            LET c == agg.rows[i].cat
                xs == GroupValues(frame, c)
            IN  xs # <<>> =>
                  /\ agg.rows[i].lower =
                        <<SeqMin(SelectSeq(xs, LAMBDA v : ~BelowLowerFence(v, c)))>>
                  /\ agg.rows[i].upper =
                        <<SeqMax(SelectSeq(xs, LAMBDA v : ~AboveUpperFence(v, c)))>>

(***************************************************************************)
(* Properties of describe_numeric_column, read in the state the call has   *)
(* left: seriesArg is the argument, described the outcome.                 *)
(***************************************************************************)
\* a numeric column: a Series whose dtype is a NumPy number dtype
NumericColumn == seriesArg.obj = "Series" /\ seriesArg.dtype \in {"int64", "float64"}

HasMissing == \E i \in 1..Len(seriesArg.vals) : seriesArg.vals[i] = NaN

\* C11: the call never raises.  A numeric column gives the dictionary; a
\* column that is not numeric gives None and the one warning "Provided column
\* is not numeric."; an argument on which the statistics fail (no Series, or a
\* dtype NumPy cannot interpret) gives None and one warning.
C11_NeverRaises ==
    described.done =>
        /\ described.raised = ""
        /\ IF NumericColumn
           THEN described.ret = "dict"
           ELSE /\ described.ret = "None"
                /\ Len(described.warnings) = 1
                /\ (seriesArg.obj = "Series" /\ seriesArg.dtype \in {"object", "bool"}) =>
                        described.warnings = <<NotNumericMsg>>

C11_Witness ==
    /\ described.done
    /\ seriesArg.obj = "Series" /\ seriesArg.dtype = "Int64"
    /\ described.ret = "None" /\ described.warnings = <<"TypeError">>

\* C12: for a numeric column with missing values the call issues the warning
\* about missing values, and the dictionary it returns has no computed iqr (the
\* entry is NaN) while the other statistics are computed from the values
\* present.
C12_IqrNotComputed ==
    (described.done /\ NumericColumn /\ HasMissing) =>
        /\ described.warnings = <<MissingMsg>>
        /\ described.ret = "dict"
        /\ described.stats.iqr = NaN
        /\ described.stats.missing >= 1
        /\ described.stats.non_null = Len(seriesArg.vals) - described.stats.missing
        /\ described.stats.non_null > 0 =>
            /\ described.stats.q25 # NaN /\ described.stats.q75 # NaN
            /\ described.stats.min # NaN /\ described.stats.max # NaN
            /\ described.stats.mean # NaN /\ described.stats.mode # NaN
            /\ described.stats.range = <<described.stats.max[1] - described.stats.min[1]>>

C12_Witness ==
    /\ described.done /\ NumericColumn
    /\ seriesArg.vals = <<NaN, <<0>>, <<4>>>>
    /\ described.stats.q25 = <<4>> /\ described.stats.q75 = <<12>>
    /\ described.stats.iqr = NaN

(***************************************************************************)
(* Properties of filter_stations.  They are read in the state a call has   *)
(* returned to: call holds the arguments, stations the table passed in and *)
(* result what came back.                                                  *)
(***************************************************************************)
Called == call.fn = "filter_stations"

DefaultLabels(st) == st.index = Range(Len(st.rows))

ColumnMsg == "Invalid < column > name."
ValueMsg == "Invalid or missing < value >."
YearMsg == "Invalid < year > type."
QuartersMsg == "Only 1-4 quarters can be specified."

\* the column/value checks raised nothing
PassedColumnChecks == result.msg \notin {ColumnMsg, ValueMsg}

\* an argument counts as given when the function's test of it succeeds:
\* it is neither None nor zero nor empty
Given(v) == Truthy(v)

ColumnCriterion(r) ==
    Given(call.column) => PyEq(r[call.column.s], call.value)

YearCriterion(r) ==
    Given(call.year) => PyEq(r["Fiscal Year"], call.year)

QuarterCriterion(r) ==
    (Given(call.year) /\ call.quarters # <<>>) =>
        \E i \in 1..Len(call.quarters) : PyEq(r["Fiscal Quarter"], call.quarters[i])

Criteria(r) == ColumnCriterion(r) /\ YearCriterion(r) /\ QuarterCriterion(r)

C4_Unchanged ==
    (Called /\ ~Given(call.column) /\ ~Given(call.year)) =>
        /\ result.kind = "ok"
        /\ result.same
        /\ result.rows = stations.rows
        /\ result.index = stations.index

C4_Witness ==
    /\ Called /\ ~Given(call.column) /\ ~Given(call.year)
    /\ Len(stations.rows) = 2 /\ ~DefaultLabels(stations)
    /\ call.value # None /\ call.quarters # <<>>
    /\ result.index = stations.index

\* C5: with a valid column only the value None is rejected; the values 0,
\* 0.0 and False are filtered on and raise nothing.
C5_ValueNoneOnly ==
    (Called /\ call.column.s \in Columns) =>
        /\ call.value = None => result = Raise("ValueError", ValueMsg)
        /\ call.value # None =>
            /\ result.msg # ValueMsg
            /\ (~Given(call.year) /\ DefaultLabels(stations)) =>
                /\ result.kind = "ok"
                /\ result.rows = SelectSeq(stations.rows, ColumnCriterion)

C5_Witness ==
    /\ Called /\ call.column.s \in Columns /\ call.value = PyBool(FALSE)
    /\ ~Given(call.year) /\ DefaultLabels(stations)
    /\ Len(stations.rows) = 2 /\ Len(result.rows) = 1

\* C6: without a year the quarters take no part: the call returns what the
\* same call without the quarters returns, and the quarters are not validated.
C6_QuartersNeedYear ==
    (Called /\ ~Given(call.year) /\ call.quarters # <<>>) =>
        /\ result = filter_stations(stations, call.column, call.value, call.year, <<>>)
        /\ result.msg # QuartersMsg

C6_Witness ==
    /\ Called /\ call.year = None
    /\ \E i \in 1..Len(call.quarters) : call.quarters[i] = PyInt(5)
    /\ result.kind = "ok" /\ Len(stations.rows) = 2 /\ Len(result.rows) = 1

\* C7: a given column that is no column of the table raises ValueError, a
\* given column with value None raises ValueError; the column check comes
\* first and both come before the checks of year and quarters, whatever the
\* year and the quarters are.
C7_ColumnValueChecks ==
    (Called /\ Given(call.column)) =>
        /\ call.column.s \notin Columns => result = Raise("ValueError", ColumnMsg)
        /\ (call.column.s \in Columns /\ call.value = None) =>
                result = Raise("ValueError", ValueMsg)

C7_Witness ==
    /\ Called /\ call.column = PyStr("Bogus") /\ call.value = None
    /\ call.year = PyStr("2024")
    /\ \E i \in 1..Len(call.quarters) : call.quarters[i] = PyInt(5)
    /\ result = Raise("ValueError", ColumnMsg)

\* C8 as stated: every year argument that is not an int, 0.0 included, raises
\* TypeError (once the column/value checks have passed).
C8_Original ==
    (Called /\ PassedColumnChecks /\ call.year # None /\ ~IsInstanceInt(call.year)) =>
        result.kind = "TypeError"

\* C8 amended: a year that is not an int raises TypeError when its truth value
\* is true (2024.0, "2024"); a year that is not an int and tests false (0.0)
\* raises nothing and is treated as no year.  No call filters on a non-int year.
C8_NonIntYear ==
    (Called /\ PassedColumnChecks /\ call.year # None /\ ~IsInstanceInt(call.year)) =>
        IF Truthy(call.year)
        THEN result = Raise("TypeError", YearMsg)
        ELSE result = filter_stations(stations, call.column, call.value, None, call.quarters)

C8_Witness ==
    /\ Called /\ call.year = PyFloat(2024) /\ result = Raise("TypeError", YearMsg)
    /\ Len(stations.rows) = 2

ValidQuarter(q) == q.t \in {"int", "bool"} /\ q.n \in 1..4

\* C9: with a (valid) year given and quarters supplied, the call raises
\* ValueError if some quarter is not an int in {1, 2, 3, 4}; otherwise it keeps,
\* of the rows that meet the column and year criteria, exactly those whose
\* Fiscal Quarter is one of the supplied quarters.
C9_Quarters ==
    (Called /\ PassedColumnChecks /\ Given(call.year) /\ IsInstanceInt(call.year)
       /\ call.quarters # <<>>) =>
        IF \E i \in 1..Len(call.quarters) : ~ValidQuarter(call.quarters[i])
        THEN result = Raise("ValueError", QuartersMsg)
        ELSE DefaultLabels(stations) =>
               /\ result.kind = "ok"
               /\ result.rows =
                    SelectSeq(SelectSeq(stations.rows,
                                        LAMBDA r : ColumnCriterion(r) /\ YearCriterion(r)),
                              LAMBDA r : r["Fiscal Quarter"].n \in
                                           {call.quarters[i].n : i \in 1..Len(call.quarters)})

C9_Witness ==
    /\ Called /\ call.year = PyInt(2024) /\ call.quarters = <<PyInt(1), PyInt(5)>>
    /\ Len(stations.rows) = 2
    /\ result = Raise("ValueError", QuartersMsg)

\* C10: a call with a year and more than four quarter arguments is rejected
\* with ValueError.
C10_AtMostFourQuarters ==
    (Called /\ PassedColumnChecks /\ Given(call.year) /\ IsInstanceInt(call.year)
       /\ Len(call.quarters) > 4) =>
        result = Raise("ValueError", QuartersMsg)

(***************************************************************************)
(* Properties of create_route.                                             *)
(***************************************************************************)
\* the two row sequences hold the same rows, each as many times
SameRows(a, b) ==
    /\ Len(a) = Len(b)
    /\ \A r \in TrainRows :
        Cardinality({i \in 1..Len(a) : a[i] = r}) = Cardinality({i \in 1..Len(b) : b[i] = r})

NonEmptyOrder == ~route.station_order.none /\ DOMAIN route.station_order.map # {}

Ranked(row) == row.code \in DOMAIN route.station_order.map

\* the returned table holds the rows that were passed, labelled 0..n-1
RouteOfTrain ==
    /\ route.kind = "ok"
    /\ route.index = Range(Len(route.before.rows))
    /\ SameRows(route.rows, route.before.rows)

\* C13: called with a non-empty station_order, create_route returns the
\* rows of train in ascending station_order rank of their Arrival Station
\* Code, whatever the direction and the coordinates; the result is a
\* permutation of the rows passed, labelled 0..n-1.
C13_StationOrder ==
    (route.done /\ NonEmptyOrder) =>
        /\ RouteOfTrain
        /\ \A i, j \in 1..Len(route.rows) :
            (i < j /\ Ranked(route.rows[i]) /\ Ranked(route.rows[j])) =>
                route.station_order.map[route.rows[i].code]
                    <= route.station_order.map[route.rows[j].code]

\* a direction that names no compass direction, and three rows that come
\* back in another order than they went in, against their latitudes
C13_Witness ==
    /\ route.done
    /\ NonEmptyOrder
    /\ route.direction = "up"
    /\ Len(route.rows) = 3
    /\ route.rows # route.before.rows
    /\ route.rows[1].code # route.rows[3].code
    /\ route.rows[1].lat > route.rows[3].lat

\* the column the direction runs along, whether it rises, and the other
\* coordinate
Along ==
    LET d == Lower(route.direction)
    IN  CASE d \in {"nb", "northbound"} -> [valid |-> TRUE, col |-> "lat", rising |-> TRUE, other |-> "lon"]
          [] d \in {"sb", "southbound"} -> [valid |-> TRUE, col |-> "lat", rising |-> FALSE, other |-> "lon"]
          [] d \in {"eb", "eastbound"} -> [valid |-> TRUE, col |-> "lon", rising |-> TRUE, other |-> "lat"]
          [] d \in {"wb", "westbound"} -> [valid |-> TRUE, col |-> "lon", rising |-> FALSE, other |-> "lat"]
          [] OTHER -> [valid |-> FALSE, col |-> "lat", rising |-> TRUE, other |-> "lon"]

\* C14: called without a station_order, create_route orders the rows along
\* the direction, given in any case in its short or long form: northbound
\* by non-decreasing Latitude, southbound by non-increasing Latitude,
\* eastbound by non-decreasing Longitude, westbound by non-increasing
\* Longitude, rows equal in that coordinate by the other one ascending; the
\* result is a permutation of the rows passed, labelled 0..n-1.
C14_Direction ==
    (route.done /\ ~NonEmptyOrder /\ Along.valid) =>
        /\ RouteOfTrain
        /\ \A i \in 1..(Len(route.rows) - 1) :
            LET a == route.rows[i]
                b == route.rows[i + 1]
            IN  /\ IF Along.rising THEN a[Along.col] <= b[Along.col]
                                   ELSE a[Along.col] >= b[Along.col]
                /\ a[Along.col] = b[Along.col] => a[Along.other] <= b[Along.other]

\* a southbound route, the direction capitalised: the latitude falls along
\* it and two rows of one latitude come by rising longitude
C14_Witness ==
    /\ route.done
    /\ ~NonEmptyOrder
    /\ route.direction = "Southbound"
    /\ Len(route.rows) = 3
    /\ route.rows # route.before.rows
    /\ route.rows[1].lat > route.rows[2].lat
    /\ route.rows[2].lat = route.rows[3].lat
    /\ route.rows[2].lon < route.rows[3].lon

\* C15: every operation is a stateless one-shot transformation; no
\* operation writes state that outlives the call: a call of create_route
\* leaves the caller's train table as it was.
C15_Stateless == [][(~route.done /\ route'.done) => train' = train]_vars

====
